---- MODULE Spec2Model ----
(***************************************************************************)
(* Gray-Scott reaction-diffusion engine (reaction_diffusion.py) and its    *)
(* keyboard handler.                                                       *)
(*                                                                         *)
(* Numbers.  The fields and parameters are float64 in the source.  Here a  *)
(* real r is the integer r * Scale (fixed point, three decimals): 1.0 is   *)
(* 1000, 0.055 is 55.  Sums are exact; every product is rounded to the     *)
(* nearest multiple of 1/Scale (Mul), as every float64 product is rounded  *)
(* to the nearest double.  float64 overflow, inf and NaN are not modelled. *)
(*                                                                         *)
(* Fields.  A numpy array of shape (height, width) is a sequence of        *)
(* height rows, each a sequence of width cells; the source's 0-based       *)
(* A[y, x] is A[y + 1][x + 1] here.                                        *)
(***************************************************************************)
EXTENDS Integers, Sequences, FiniteSets, TLC

VARIABLES
  width, height,      \* ReactionDiffusion.width, .height
  config,             \* ReactionDiffusion.config / Visualizer.config
  U, V,               \* the two concentration fields
  Du, Dv, f, k, dt,   \* the five scalar parameters
  err,                \* "none", or the exception that ended the program
  running, paused,    \* Visualizer.running, Visualizer.paused
  use_alt_colormap,   \* Visualizer.use_alt_colormap
  last,               \* the call that produced this state: [op, args, result]
  fuel,               \* calls still allowed in this run (bounds the search)
  size, lattice,      \* IsingModel.size, .lattice
  temperature, J,     \* IsingModel.temperature, .J
  energies,           \* IsingSimulation.energies
  magnetizations,     \* IsingSimulation.magnetizations
  sweep_count,        \* IsingSimulation.sweep_count
  step                \* the local step of IsingSimulation.run

\* The variables of ising_model.py and those of reaction_diffusion.py
\* (running, paused, err, last and fuel serve whichever program runs).
isingVars ==
  <<size, lattice, temperature, J, energies, magnetizations, sweep_count,
    step>>

rdVars == <<width, height, config, U, V, Du, Dv, f, k, dt, use_alt_colormap>>

vars == <<width, height, config, U, V, Du, Dv, f, k, dt, err,
          running, paused, use_alt_colormap, last, fuel,
          size, lattice, temperature, J, energies, magnetizations,
          sweep_count, step>>

\* No Ising simulation has been created.
IsingIdle ==
  /\ size = 0
  /\ lattice = <<>>
  /\ temperature = 0
  /\ J = 0
  /\ energies = <<>>
  /\ magnetizations = <<>>
  /\ sweep_count = 0
  /\ step = 0

----------------------------------------------------------------------------
(* Bounds of the search.                                                   *)

\* Calls made after construction in the full-size specification Spec.
MaxCalls == 1
\* Calls made on a small grid in SpecSmall.
MaxSmallCalls == 3
\* Largest width and height of a small grid.
MaxDim == 3
\* The iterations of the visualizer's loop followed in SpecLoop.
MaxFrames == 2
\* The iterations of the Ising loop followed in SpecIsing.
MaxIsingFrames == 4
\* The calls made on a grid in SpecLocal.
MaxLocalCalls == 3
\* The side of the grid and the calls of _handle_events in SpecMouse.
MouseDim == 14
MaxMouseCalls == 2
\* The calls and iterations followed in SpecMetropolis.
MaxMetropolisCalls == 3
\* The key presses followed in SpecArrows.
MaxKeyPresses == 22

----------------------------------------------------------------------------
(* Arithmetic.                                                             *)

Scale == 1000

\* a * b on fixed-point numbers, rounded to nearest (ties upward).
Mul(a, b) == (2 * a * b + Scale) \div (2 * Scale)

\* np.clip(v, lo, hi) on a scalar.
Clip(v, lo, hi) == IF v < lo THEN lo ELSE IF v > hi THEN hi ELSE v

\* A randint that does not reject an empty range but returns low.
RandIntUnchecked(low, high) == IF high > low THEN low .. (high - 1) ELSE {low}

\* np.random.randint(low, high): the integers low <= n < high.  An empty
\* range makes numpy raise ValueError.
RandInt(low, high) == low .. (high - 1)

Min(s) == CHOOSE m \in s : \A n \in s : m <= n
Max(s) == CHOOSE m \in s : \A n \in s : m >= n
\* The draws the search follows from a non-empty range: its two ends.
Sampled(s) == {Min(s), Max(s)}

----------------------------------------------------------------------------
(* SimulationConfig.                                                       *)

WIDTH == 400
HEIGHT == 400
SCALE == 2
DU == 160
DV == 80
FEED_RATE == 55
KILL_RATE == 62
DT == 1000
STEPS_PER_FRAME == 8

\* The table with the rates of preset 3 exchanged.
PresetsExchanged ==
  (1 :> <<55, 62, "Mitosis (spots)">>) @@
  (2 :> <<39, 58, "Coral/Maze">>) @@
  (3 :> <<52, 26, "Stripes">>) @@
  (4 :> <<78, 61, "Waves">>) @@
  (5 :> <<14, 47, "Spirals">>)

PRESETS ==
  (1 :> <<55, 62, "Mitosis (spots)">>) @@
  (2 :> <<39, 58, "Coral/Maze">>) @@
  (3 :> <<26, 52, "Stripes">>) @@
  (4 :> <<78, 61, "Waves">>) @@
  (5 :> <<14, 47, "Spirals">>)

SimulationConfig ==
  [DU |-> DU, DV |-> DV, FEED_RATE |-> FEED_RATE, KILL_RATE |-> KILL_RATE,
   DT |-> DT, STEPS_PER_FRAME |-> STEPS_PER_FRAME, PRESETS |-> PRESETS,
   WIDTH |-> WIDTH, HEIGHT |-> HEIGHT, SCALE |-> SCALE]

\* A caller-supplied config object (the config argument of __init__ and of
\* Visualizer.__init__): strong diffusion, a feed rate outside the range
\* set_parameters would allow, a long time step, and a shorter preset table.
StiffConfig ==
  [DU |-> 900, DV |-> 1100, FEED_RATE |-> 3000, KILL_RATE |-> 0,
   DT |-> 4000, STEPS_PER_FRAME |-> STEPS_PER_FRAME,
   PRESETS |-> [n \in {1, 2, 3} |-> PRESETS[n]],
   WIDTH |-> WIDTH, HEIGHT |-> HEIGHT, SCALE |-> SCALE]

\* As StiffConfig with time running backwards.
ReverseConfig == [StiffConfig EXCEPT !.DT = -2500, !.FEED_RATE = 55]

----------------------------------------------------------------------------
(* Fields.                                                                 *)

\* A numpy array of shape (h, w) holding cells[y][x]: every cell is
\* computed when the array is made.
Array(h, w, cells) ==
  SubSeq([y \in 1..h |-> SubSeq(cells[y], 1, w)], 1, h)

\* np.ones((h, w)) * v: a field of h rows and w columns holding v.
Full(h, w, v) == Array(h, w, [y \in 1..h |-> [x \in 1..w |-> v]])

\* arr.shape
Rows(arr) == Len(arr)
Cols(arr) == IF Len(arr) = 0 THEN 0 ELSE Len(arr[1])

\* A mask whose centre is taken modulo the grid, as an index would be.
CircleMaskWrapped(w, h, cx, cy, radius) ==
  [y \in 1..h |-> [x \in 1..w |->
     ((x - 1) - (cx % w)) * ((x - 1) - (cx % w))
       + ((y - 1) - (cy % h)) * ((y - 1) - (cy % h)) <= radius * radius]]

\* A mask whose centre is first moved onto the nearest grid cell.
CircleMaskClamped(w, h, cx, cy, radius) ==
  [y \in 1..h |-> [x \in 1..w |->
     ((x - 1) - Clip(cx, 0, w - 1)) * ((x - 1) - Clip(cx, 0, w - 1))
       + ((y - 1) - Clip(cy, 0, h - 1)) * ((y - 1) - Clip(cy, 0, h - 1))
       <= radius * radius]]

\* The boolean mask of _add_circle, from the open grids y (a column
\* 0..height-1) and x (a row 0..width-1).
CircleMask(w, h, cx, cy, radius) ==
  [y \in 1..h |-> [x \in 1..w |->
     ((x - 1) - cx) * ((x - 1) - cx) + ((y - 1) - cy) * ((y - 1) - cy)
       <= radius * radius]]

\* arr[mask] = value, for arr and mask of shape (h, w).
MaskedAssign(w, h, arr, mask, value) ==
  Array(h, w, [y \in 1..h |-> [x \in 1..w |->
     IF mask[y][x] THEN value ELSE arr[y][x]]])

\* _add_circle: the pair <<U, V>> after the call.
AddCircle(w, h, u, v, cx, cy, radius, chemical, value) ==
  LET mask == CircleMask(w, h, cx, cy, radius)
  IN IF chemical = "V"
       THEN <<u, MaskedAssign(w, h, v, mask, value)>>
       ELSE <<MaskedAssign(w, h, u, mask, value), v>>

\* _add_random_seeds, given the draws of its loop as a sequence of
\* <<cx, cy, radius>>: the pair <<U, V>> after the last _add_circle.
RECURSIVE AddRandomSeeds(_, _, _, _, _)
AddRandomSeeds(w, h, u, v, seeds) ==
  IF seeds = <<>> THEN <<u, v>>
  ELSE LET uv == AddCircle(w, h, u, v, seeds[1][1], seeds[1][2], seeds[1][3],
                           "V", Scale)
       IN AddRandomSeeds(w, h, uv[1], uv[2], Tail(seeds))

\* np.pad(arr, 1, mode='edge'): the border rows and cells repeated.
PadEdge(arr) ==
  LET rows == <<arr[1]>> \o arr \o <<arr[Rows(arr)]>>
  IN [i \in 1..Len(rows) |->
        <<rows[i][1]>> \o rows[i] \o <<rows[i][Len(rows[i])]>>]

\* Padding with zeros (mode='constant') in place of the wrap.
PadZero(arr) ==
  LET zeros == [x \in 1..Cols(arr) |-> 0]
      rows == <<zeros>> \o arr \o <<zeros>>
  IN [i \in 1..Len(rows) |-> <<0>> \o rows[i] \o <<0>>]

\* np.pad(arr, 1, mode='wrap'): first the rows (the last row before the
\* first, the first row after the last), then the same along each row.
PadWrap(arr) ==
  LET rows == <<arr[Rows(arr)]>> \o arr \o <<arr[1]>>
  IN [i \in 1..Len(rows) |->
        <<rows[i][Len(rows[i])]>> \o rows[i] \o <<rows[i][1]>>]

\* The stencil without its four diagonal terms.
ComputeLaplacianFivePoint(arr) ==
  LET padded == PadWrap(arr)
  IN [y \in 1..Rows(arr) |-> [x \in 1..Cols(arr) |->
         Mul(200, padded[y][x + 1])
       + Mul(200, padded[y + 1][x])
       + Mul(-1000, padded[y + 1][x + 1])
       + Mul(200, padded[y + 1][x + 2])
       + Mul(200, padded[y + 2][x + 1])]]

\* The stencil with its result stored one cell off: cell (y, x) gets the
\* Laplacian of cell (y + 1, x + 1).
ComputeLaplacianRolled(arr) ==
  LET padded == PadWrap(arr)
  IN [y \in 1..Rows(arr) |-> [x \in 1..Cols(arr) |->
       LET yy == (y % Rows(arr)) + 1
           xx == (x % Cols(arr)) + 1
       IN  Mul(50, padded[yy][xx])
         + Mul(200, padded[yy][xx + 1])
         + Mul(50, padded[yy][xx + 2])
         + Mul(200, padded[yy + 1][xx])
         + Mul(-1000, padded[yy + 1][xx + 1])
         + Mul(200, padded[yy + 1][xx + 2])
         + Mul(50, padded[yy + 2][xx])
         + Mul(200, padded[yy + 2][xx + 1])
         + Mul(50, padded[yy + 2][xx + 2])]]

\* _compute_laplacian.  padded[:-2, :-2] is the padded array shifted so that
\* cell (y, x) reads padded (y, x); padded[1:-1, 1:-1] reads (y+1, x+1); etc.
ComputeLaplacian(arr) ==
  LET padded == PadWrap(arr)
  IN [y \in 1..Rows(arr) |-> [x \in 1..Cols(arr) |->
         Mul(50, padded[y][x])
       + Mul(200, padded[y][x + 1])
       + Mul(50, padded[y][x + 2])
       + Mul(200, padded[y + 1][x])
       + Mul(-1000, padded[y + 1][x + 1])
       + Mul(200, padded[y + 1][x + 2])
       + Mul(50, padded[y + 2][x])
       + Mul(200, padded[y + 2][x + 1])
       + Mul(50, padded[y + 2][x + 2])]]

\* The update done field after field: V += ... reads the U that U += ...
\* has just written.
StepUpdateInPlace(u, v, du, dv, fe, ki, d) ==
  LET h == Rows(u)
      w == Cols(u)
      lap_U == ComputeLaplacian(u)
      lap_V == ComputeLaplacian(v)
      u1 == Array(h, w, [y \in 1..h |-> [x \in 1..w |->
               u[y][x] + Mul(d, Mul(du, lap_U[y][x])
                                - Mul(Mul(u[y][x], v[y][x]), v[y][x])
                                + Mul(fe, Scale - u[y][x]))]])
  IN <<u1,
       Array(h, w, [y \in 1..h |-> [x \in 1..w |->
               v[y][x] + Mul(d, Mul(dv, lap_V[y][x])
                                + Mul(Mul(u1[y][x], v[y][x]), v[y][x])
                                - Mul(fe + ki, v[y][x]))]])>>

\* The body of step before its clips: the pair <<U, V>> after the two +=,
\* in the order of the source: both Laplacians and uvv from the fields as
\* they are, then U += ..., then V += ...
StepUpdate(u, v, du, dv, fe, ki, d) ==
  LET h == Rows(u)
      w == Cols(u)
      lap_U == ComputeLaplacian(u)
      lap_V == ComputeLaplacian(v)
      uvv == [y \in 1..h |-> [x \in 1..w |-> Mul(Mul(u[y][x], v[y][x]), v[y][x])]]
  IN <<Array(h, w, [y \in 1..h |-> [x \in 1..w |->
               u[y][x] + Mul(d, Mul(du, lap_U[y][x]) - uvv[y][x]
                                + Mul(fe, Scale - u[y][x]))]]),
       Array(h, w, [y \in 1..h |-> [x \in 1..w |->
               v[y][x] + Mul(d, Mul(dv, lap_V[y][x]) + uvv[y][x]
                                - Mul(fe + ki, v[y][x]))]])>>

\* np.clip(arr, lo, hi, out=arr)
ClipArray(arr, lo, hi) ==
  Array(Rows(arr), Cols(arr),
        [y \in 1..Rows(arr) |-> [x \in 1..Cols(arr) |-> Clip(arr[y][x], lo, hi)]])

\* step without its second clip.
StepFieldsVUnclipped(u, v, du, dv, fe, ki, d) ==
  LET uv == StepUpdate(u, v, du, dv, fe, ki, d)
  IN <<ClipArray(uv[1], 0, Scale), uv[2]>>

\* step: the pair <<U, V>> after the call.
StepFields(u, v, du, dv, fe, ki, d) ==
  LET uv == StepUpdate(u, v, du, dv, fe, ki, d)
  IN <<ClipArray(uv[1], 0, Scale), ClipArray(uv[2], 0, Scale)>>

----------------------------------------------------------------------------
(* Calls.                                                                  *)

\* An omitted keyword argument (f=None) and a supplied one.
None == <<>>
Some(v) == <<v>>

\* The record kept of the call that produced a state: its name and
\* arguments, the random draws it made, what it returned, and the fields
\* and parameters as they were when it was made.
Call(op, args, draws, result) ==
  [op |-> op, args |-> args, draws |-> draws, result |-> result,
   pre |-> [U |-> U, V |-> V, f |-> f, k |-> k,
            Du |-> Du, Dv |-> Dv, dt |-> dt]]

\* The constants of _add_random_seeds and of its three callers.
SeedMargin == 50
SeedRadiusLow == 5
SeedRadiusHigh == 15
InitSeeds == 5
ResetSeeds == 5
ClearSeedsLow == 3
ClearSeedsHigh == 8

\* Seed centres drawn from the whole grid.
SeedDrawsAnywhere(w, h) ==
  Sampled(RandInt(0, w))
    \X Sampled(RandInt(0, h))
    \X Sampled(RandInt(SeedRadiusLow, SeedRadiusHigh))

\* One iteration's draws <<cx, cy, radius>> of _add_random_seeds.
SeedDraws(w, h) ==
  Sampled(RandInt(SeedMargin, w - SeedMargin))
    \X Sampled(RandInt(SeedMargin, h - SeedMargin))
    \X Sampled(RandInt(SeedRadiusLow, SeedRadiusHigh))

\* The draws of n iterations the search follows: two draws, taken in turn.
SeedLists(n, w, h) ==
  {[i \in 1..n |-> IF i % 2 = 1 THEN a ELSE b] :
     a \in SeedDraws(w, h), b \in SeedDraws(w, h)}

\* A seed count drawn with the upper end included.
SeedCountsInclusive == ClearSeedsLow .. ClearSeedsHigh

\* The seed counts clear_with_seeds can draw.
SeedCounts == RandInt(ClearSeedsLow, ClearSeedsHigh)

\* Whether _add_random_seeds(n) on a w x h grid raises ValueError at its
\* first randint (low >= high).
SeedsRaise(n, w, h) ==
  /\ n > 0
  /\ \/ RandInt(SeedMargin, w - SeedMargin) = {}
     \/ RandInt(SeedMargin, h - SeedMargin) = {}

\* A reset that seeds without clearing V first.
FillAndSeedKeeping(n, op, args) ==
  LET u0 == Full(height, width, Scale)
  IN IF SeedsRaise(n, width, height)
       THEN /\ U' = u0
            /\ V' = V
            /\ err' = "ValueError"
            /\ last' = Call(op, args, <<>>, <<>>)
       ELSE \E seeds \in SeedLists(n, width, height) :
              LET uv == AddRandomSeeds(width, height, u0, V, seeds)
              IN /\ U' = uv[1]
                 /\ V' = uv[2]
                 /\ err' = "none"
                 /\ last' = Call(op, args, seeds, <<>>)

\* U.fill(1.0); V.fill(0.0); _add_random_seeds(n), as the call named op.
FillAndSeed(n, op, args) ==
  LET u0 == Full(height, width, Scale)
      v0 == Full(height, width, 0)
  IN IF SeedsRaise(n, width, height)
       THEN /\ U' = u0
            /\ V' = v0
            /\ err' = "ValueError"
            /\ last' = Call(op, args, <<>>, <<>>)
       ELSE \E seeds \in SeedLists(n, width, height) :
              LET uv == AddRandomSeeds(width, height, u0, v0, seeds)
              IN /\ U' = uv[1]
                 /\ V' = uv[2]
                 /\ err' = "none"
                 /\ last' = Call(op, args, seeds, <<>>)

\* set_parameters storing what it is given.
SetParametersUnclamped(fe, ki, fa, ka) ==
  <<IF fa # None THEN fa[1] ELSE fe, IF ka # None THEN ka[1] ELSE ki>>

\* set_parameters taking an omitted argument for the default rate.
SetParametersDefaulting(fe, ki, fa, ka) ==
  <<IF fa # None THEN Clip(fa[1], 1, 100) ELSE FEED_RATE,
    IF ka # None THEN Clip(ka[1], 1, 100) ELSE KILL_RATE>>

\* set_parameters wrapping a value that leaves the range round to the
\* other bound.
SetParametersWrapping(fe, ki, fa, ka) ==
  LET Wrap(v) == IF v > 100 THEN 1 ELSE IF v < 1 THEN 100 ELSE v
  IN <<IF fa # None THEN Wrap(fa[1]) ELSE fe,
       IF ka # None THEN Wrap(ka[1]) ELSE ki>>

\* set_parameters(f=fa, k=ka): the pair <<f, k>> after the call.
SetParametersResult(fe, ki, fa, ka) ==
  <<IF fa # None THEN Clip(fa[1], 1, 100) ELSE fe,
    IF ka # None THEN Clip(ka[1], 1, 100) ELSE ki>>

\* A call is made on a live program that has calls left in this run.
CanCall == err = "none" /\ fuel > 0

----------------------------------------------------------------------------
(* Construction.                                                           *)

\* ReactionDiffusion(w, h, cfg) followed by Visualizer(simulation, cfg).
\* np.ones raises ValueError on a negative dimension; _add_random_seeds(5)
\* raises it when a randint range is empty.  A failed construction leaves
\* no engine: the fields are empty and nothing can be called.
Construct(w, h, cfg, calls) ==
  /\ width = w
  /\ height = h
  /\ config = cfg
  /\ Du = cfg.DU
  /\ Dv = cfg.DV
  /\ f = cfg.FEED_RATE
  /\ k = cfg.KILL_RATE
  /\ dt = cfg.DT
  /\ paused = FALSE
  /\ use_alt_colormap = FALSE
  /\ fuel = calls
  /\ IsingIdle
  /\ IF w < 0 \/ h < 0 \/ SeedsRaise(InitSeeds, w, h)
       THEN /\ U = <<>>
            /\ V = <<>>
            /\ err = "ValueError"
            /\ running = FALSE
            /\ last = [op |-> "__init__", args |-> <<w, h>>, draws |-> <<>>,
                       result |-> <<>>, pre |-> <<>>]
       ELSE \E seeds \in SeedLists(InitSeeds, w, h) :
              LET uv == AddRandomSeeds(w, h, Full(h, w, Scale), Full(h, w, 0),
                                       seeds)
              IN /\ U = uv[1]
                 /\ V = uv[2]
                 /\ err = "none"
                 /\ running = TRUE
                 /\ last = [op |-> "__init__", args |-> <<w, h>>,
                            draws |-> seeds, result |-> <<>>, pre |-> <<>>]

\* The smallest grid _add_random_seeds accepts.
MinGrid == 2 * SeedMargin + 1

\* The sizes and configs constructions are tried with.
Sizes == {-1, 0, 10, MinGrid - 1, MinGrid}
Configs == {SimulationConfig, StiffConfig}

Init ==
  \E w \in Sizes, h \in Sizes, cfg \in Configs : Construct(w, h, cfg, MaxCalls)

----------------------------------------------------------------------------
(* The engine's methods.                                                   *)

Step ==
  /\ CanCall
  /\ \E uv \in {StepFields(U, V, Du, Dv, f, k, dt)} :
       U' = uv[1] /\ V' = uv[2]
  /\ last' = Call("step", <<>>, <<>>, <<>>)
  /\ fuel' = fuel - 1
  /\ UNCHANGED isingVars
  /\ UNCHANGED <<width, height, config, Du, Dv, f, k, dt, err,
                 running, paused, use_alt_colormap>>

\* A seeding whose radius is drawn around the one asked for.
AddChemicalAtJittered(x, y, radius, chemical) ==
  /\ CanCall
  /\ \E r \in {radius, radius + 1} :
       \E uv \in {AddCircle(width, height, U, V, x, y, r, chemical, Scale)} :
         U' = uv[1] /\ V' = uv[2]
  /\ last' = Call("add_chemical_at", <<x, y, radius, chemical>>, <<>>, <<>>)
  /\ fuel' = fuel - 1
  /\ UNCHANGED isingVars
  /\ UNCHANGED <<width, height, config, Du, Dv, f, k, dt, err,
                 running, paused, use_alt_colormap>>

\* add_chemical_at(x, y, radius, chemical): _add_circle with value 1.0.
AddChemicalAt(x, y, radius, chemical) ==
  /\ CanCall
  /\ \E uv \in {AddCircle(width, height, U, V, x, y, radius, chemical, Scale)} :
       U' = uv[1] /\ V' = uv[2]
  /\ last' = Call("add_chemical_at", <<x, y, radius, chemical>>, <<>>, <<>>)
  /\ fuel' = fuel - 1
  /\ UNCHANGED isingVars
  /\ UNCHANGED <<width, height, config, Du, Dv, f, k, dt, err,
                 running, paused, use_alt_colormap>>

\* A reset that also restores the class defaults of the parameters.
ResetRestoringDefaults ==
  /\ CanCall
  /\ FillAndSeed(ResetSeeds, "reset", <<>>)
  /\ fuel' = fuel - 1
  /\ UNCHANGED isingVars
  /\ Du' = DU
  /\ Dv' = DV
  /\ f' = FEED_RATE
  /\ k' = KILL_RATE
  /\ dt' = DT
  /\ UNCHANGED <<width, height, config, running, paused, use_alt_colormap>>

Reset ==
  /\ CanCall
  /\ FillAndSeed(ResetSeeds, "reset", <<>>)
  /\ fuel' = fuel - 1
  /\ UNCHANGED isingVars
  /\ UNCHANGED <<width, height, config, Du, Dv, f, k, dt,
                 running, paused, use_alt_colormap>>

ClearWithSeeds ==
  /\ CanCall
  /\ \E n \in Sampled(SeedCounts) :
       FillAndSeed(n, "clear_with_seeds", <<>>)
  /\ fuel' = fuel - 1
  /\ UNCHANGED isingVars
  /\ UNCHANGED <<width, height, config, Du, Dv, f, k, dt,
                 running, paused, use_alt_colormap>>

SetParameters(fa, ka) ==
  /\ CanCall
  /\ LET fk == SetParametersResult(f, k, fa, ka)
     IN f' = fk[1] /\ k' = fk[2]
  /\ last' = Call("set_parameters", <<fa, ka>>, <<>>, <<>>)
  /\ fuel' = fuel - 1
  /\ UNCHANGED isingVars
  /\ UNCHANGED <<width, height, config, U, V, Du, Dv, dt, err,
                 running, paused, use_alt_colormap>>

\* _compute_laplacian(self.U) or (self.V), called on its own.
Laplacian(which) ==
  /\ CanCall
  /\ last' = Call("_compute_laplacian", <<which>>, <<>>,
                  ComputeLaplacian(IF which = "U" THEN U ELSE V))
  /\ fuel' = fuel - 1
  /\ UNCHANGED isingVars
  /\ UNCHANGED <<width, height, config, U, V, Du, Dv, f, k, dt, err,
                 running, paused, use_alt_colormap>>

----------------------------------------------------------------------------
(* The keyboard handler.                                                   *)

\* pygame key codes.
K_0 == 48
K_1 == K_0 + 1
K_2 == K_0 + 2
K_3 == K_0 + 3
K_4 == K_0 + 4
K_5 == K_0 + 5
K_9 == K_0 + 9
K_ESCAPE == 27
K_SPACE == 32
K_c == 99
K_m == 109
K_q == 113
K_r == 114
K_s == 115
K_RIGHT == 1073741903
K_LEFT == 1073741904
K_DOWN == 1073741905
K_UP == 1073741906

\* The step of the arrow keys: 0.002.
KeyStep == 2

\* Visualizer._handle_keydown(key).
KeyDown(key) ==
  /\ CanCall
  /\ fuel' = fuel - 1
  /\ UNCHANGED isingVars
  /\ UNCHANGED <<width, height, config, Du, Dv, dt>>
  /\ IF key \in {K_q, K_ESCAPE} THEN
       /\ running' = FALSE
       /\ last' = Call("keydown", <<key>>, <<>>, <<>>)
       /\ UNCHANGED <<U, V, f, k, err, paused, use_alt_colormap>>
     ELSE IF key = K_SPACE THEN
       /\ paused' = ~paused
       /\ last' = Call("keydown", <<key>>, <<>>, <<>>)
       /\ UNCHANGED <<U, V, f, k, err, running, use_alt_colormap>>
     ELSE IF key = K_r THEN
       /\ FillAndSeed(ResetSeeds, "keydown", <<key>>)
       /\ UNCHANGED <<f, k, running, paused, use_alt_colormap>>
     ELSE IF key = K_c THEN
       /\ \E n \in Sampled(SeedCounts) :
            FillAndSeed(n, "keydown", <<key>>)
       /\ UNCHANGED <<f, k, running, paused, use_alt_colormap>>
     ELSE IF key = K_m THEN
       /\ use_alt_colormap' = ~use_alt_colormap
       /\ last' = Call("keydown", <<key>>, <<>>, <<>>)
       /\ UNCHANGED <<U, V, f, k, err, running, paused>>
     ELSE
       /\ LET fk ==
                IF key = K_UP THEN
                  SetParametersResult(f, k, Some(f + KeyStep), None)
                ELSE IF key = K_DOWN THEN
                  SetParametersResult(f, k, Some(f - KeyStep), None)
                ELSE IF key = K_RIGHT THEN
                  SetParametersResult(f, k, None, Some(k + KeyStep))
                ELSE IF key = K_LEFT THEN
                  SetParametersResult(f, k, None, Some(k - KeyStep))
                ELSE IF key = K_s THEN
                  <<f, k>>
                ELSE IF /\ key \in {K_1, K_2, K_3, K_4, K_5}
                        /\ key - K_0 \in DOMAIN config.PRESETS THEN
                  SetParametersResult(f, k,
                                      Some(config.PRESETS[key - K_0][1]),
                                      Some(config.PRESETS[key - K_0][2]))
                ELSE
                  <<f, k>>
          IN f' = fk[1] /\ k' = fk[2]
       /\ last' = Call("keydown", <<key>>, <<>>, <<>>)
       /\ UNCHANGED <<U, V, err, running, paused, use_alt_colormap>>

----------------------------------------------------------------------------
(* Spec: the program at its real size.  A grid is constructed (or the      *)
(* construction fails) and MaxCalls calls are made on it.                  *)

\* The calls add_chemical_at is tried with: the handler's radii 8, 12 and 5
\* at the corners, the centre and outside the grid, and one selector that
\* is neither 'U' nor 'V'.
Clicks ==
  {<<0, 0, 8, "V">>, <<width \div 2, height \div 2, 12, "U">>,
   <<width - 1, height - 1, 5, "V">>, <<-20, height \div 2, 8, "U">>,
   <<width + 30, height + 30, 12, "V">>, <<width \div 2, 0, 8, "X">>}

\* The arguments set_parameters is tried with: omitted, above the range,
\* below it, inside it.
ParamArgs == {None, Some(5000), Some(-1000), Some(30)}

Keys ==
  {K_q, K_ESCAPE, K_SPACE, K_r, K_c, K_m, K_UP, K_DOWN, K_RIGHT, K_LEFT,
   K_s, K_1, K_2, K_3, K_4, K_5, K_9}

Next ==
  \/ Step
  \/ \E c \in Clicks : AddChemicalAt(c[1], c[2], c[3], c[4])
  \/ Reset
  \/ ClearWithSeeds
  \/ \E fa \in ParamArgs, ka \in ParamArgs : SetParameters(fa, ka)
  \/ \E key \in Keys : KeyDown(key)

Spec == Init /\ [][Next]_vars

----------------------------------------------------------------------------
(* SpecSmall: the engine's methods on small grids.  The fields are given   *)
(* (a grid this small cannot be constructed: see SeedsRaise) and           *)
(* MaxSmallCalls calls are made on them.                                   *)

\* Fields that differ in every cell.
RampU(h, w) == [y \in 1..h |-> [x \in 1..w |-> Scale - 100 * x - 30 * y]]
RampV(h, w) == [y \in 1..h |-> [x \in 1..w |-> 60 * x + 170 * (y - 1)]]

\* The given fields and parameters: fresh fields (U = 1, V = 0) or the
\* ramps, with the default, the stiff and the reverse parameters.
SmallStarts ==
  {<<SimulationConfig, "fresh">>, <<SimulationConfig, "ramp">>,
   <<StiffConfig, "ramp">>, <<ReverseConfig, "ramp">>}

InitSmall ==
  \E w \in 1..MaxDim, h \in 1..MaxDim, st \in SmallStarts :
    /\ width = w
    /\ height = h
    /\ config = st[1]
    /\ U = IF st[2] = "fresh" THEN Full(h, w, Scale) ELSE RampU(h, w)
    /\ V = IF st[2] = "fresh" THEN Full(h, w, 0) ELSE RampV(h, w)
    /\ Du = st[1].DU
    /\ Dv = st[1].DV
    /\ f = st[1].FEED_RATE
    /\ k = st[1].KILL_RATE
    /\ dt = st[1].DT
    /\ err = "none"
    /\ running = TRUE
    /\ paused = FALSE
    /\ use_alt_colormap = FALSE
    /\ last = [op |-> "given", args |-> <<w, h>>, draws |-> <<>>,
               result |-> <<>>, pre |-> <<>>]
    /\ fuel = MaxSmallCalls
    /\ IsingIdle

\* The calls add_chemical_at / _add_circle is tried with on a small grid:
\* centres on a corner, just outside an edge and far outside, radii 0 to 2,
\* and both selectors plus one that is neither.
SmallClicks ==
  ({<<0, 0>>, <<-1, 0>>, <<width - 1, height>>, <<width + 2, height + 2>>}
     \X {1, 2} \X {"V"})
  \cup {<<<<0, 0>>, 0, "V">>, <<<<0, 0>>, 1, "U">>,
        <<<<width - 1, height>>, 2, "U">>, <<<<0, 0>>, 1, "X">>}

SmallParamArgs ==
  {<<None, None>>, <<Some(5000), None>>, <<None, Some(-1000)>>,
   <<Some(5000), Some(-1000)>>, <<Some(30), Some(70)>>}

NextSmall ==
  \/ Step
  \/ \E c \in SmallClicks : AddChemicalAt(c[1][1], c[1][2], c[2], c[3])
  \/ Reset
  \/ ClearWithSeeds
  \/ \E a \in SmallParamArgs : SetParameters(a[1], a[2])

SpecSmall == InitSmall /\ [][NextSmall]_vars

----------------------------------------------------------------------------
(* SpecLap: _compute_laplacian called on its own on small arrays.          *)

NextLap ==
  \/ Laplacian("U")
  \/ Laplacian("V")
  \/ Step
  \/ \E c \in SmallClicks : AddChemicalAt(c[1][1], c[1][2], c[2], c[3])

SpecLap == InitSmall /\ [][NextLap]_vars

----------------------------------------------------------------------------
(* SpecKeys: the keyboard handler, with set_parameters calls between the   *)
(* key presses, on the given small grids.                                  *)

NextKeys ==
  \/ \E key \in Keys : KeyDown(key)
  \/ \E a \in SmallParamArgs : SetParameters(a[1], a[2])

\* The largest of the given grids.
InitKeys == InitSmall /\ width = MaxDim /\ height = MaxDim

SpecKeys == InitKeys /\ [][NextKeys]_vars

----------------------------------------------------------------------------
(* The visualizer's main loop.  The handlers are written as operators from *)
(* the state of the engine and the visualizer to the set of states they    *)
(* can leave it in, so that one iteration can run them one after another.  *)

\* The engine and the visualizer as one record; draws collects the random
\* draws made so far in the iteration.
Vis ==
  [U |-> U, V |-> V, f |-> f, k |-> k, running |-> running,
   paused |-> paused, use_alt_colormap |-> use_alt_colormap,
   err |-> err, draws |-> <<>>]

\* U.fill(1.0); V.fill(0.0); _add_random_seeds(n) on s.
SeedSet(s, n) ==
  LET u0 == Full(height, width, Scale)
      v0 == Full(height, width, 0)
  IN IF SeedsRaise(n, width, height)
       THEN {[s EXCEPT !.U = u0, !.V = v0, !.err = "ValueError"]}
       ELSE {LET uv == AddRandomSeeds(width, height, u0, v0, seeds)
             IN [s EXCEPT !.U = uv[1], !.V = uv[2], !.draws = @ \o seeds] :
               seeds \in SeedLists(n, width, height)}

\* set_parameters(f=fa, k=ka) on s.
WithParameters(s, fa, ka) ==
  LET fk == SetParametersResult(s.f, s.k, fa, ka)
  IN [s EXCEPT !.f = fk[1], !.k = fk[2]]

\* _handle_keydown(key) on s.
HandleKeydown(s, key) ==
  IF key \in {K_q, K_ESCAPE} THEN {[s EXCEPT !.running = FALSE]}
  ELSE IF key = K_SPACE THEN {[s EXCEPT !.paused = ~@]}
  ELSE IF key = K_r THEN SeedSet(s, ResetSeeds)
  ELSE IF key = K_c THEN UNION {SeedSet(s, n) : n \in Sampled(SeedCounts)}
  ELSE IF key = K_m THEN {[s EXCEPT !.use_alt_colormap = ~@]}
  ELSE IF key = K_UP THEN {WithParameters(s, Some(s.f + KeyStep), None)}
  ELSE IF key = K_DOWN THEN {WithParameters(s, Some(s.f - KeyStep), None)}
  ELSE IF key = K_RIGHT THEN {WithParameters(s, None, Some(s.k + KeyStep))}
  ELSE IF key = K_LEFT THEN {WithParameters(s, None, Some(s.k - KeyStep))}
  ELSE IF key = K_s THEN {s}
  ELSE IF /\ key \in {K_1, K_2, K_3, K_4, K_5}
          /\ key - K_0 \in DOMAIN config.PRESETS
    THEN {WithParameters(s, Some(config.PRESETS[key - K_0][1]),
                         Some(config.PRESETS[key - K_0][2]))}
  ELSE {s}

\* add_chemical_at(x, y, radius, chemical) on s.
WithChemicalAt(s, x, y, radius, chemical) ==
  LET uv == AddCircle(width, height, s.U, s.V, x, y, radius, chemical, Scale)
  IN [s EXCEPT !.U = uv[1], !.V = uv[2]]

\* self.display_height.
DisplayHeight == config.HEIGHT * config.SCALE

\* _handle_mouse_click without the test of the simulation area.
HandleMouseClickAnywhere(s, pos, button) ==
  IF button = 1
    THEN WithChemicalAt(s, pos[1] \div config.SCALE,
                        pos[2] \div config.SCALE, 8, "V")
  ELSE IF button = 3
    THEN WithChemicalAt(s, pos[1] \div config.SCALE,
                        pos[2] \div config.SCALE, 12, "U")
  ELSE s

\* _handle_mouse_click: pos = <<x, y>> in pixels, button 1 is the left one
\* and 3 the right one.
HandleMouseClick(s, pos, button) ==
  IF pos[2] < DisplayHeight
    THEN IF button = 1
           THEN WithChemicalAt(s, pos[1] \div config.SCALE,
                               pos[2] \div config.SCALE, 8, "V")
         ELSE IF button = 3
           THEN WithChemicalAt(s, pos[1] \div config.SCALE,
                               pos[2] \div config.SCALE, 12, "U")
         ELSE s
    ELSE s

\* _handle_mouse_drag: pressed = <<left, middle, right>>.
HandleMouseDrag(s, pos, pressed) ==
  IF pos[2] < DisplayHeight
    THEN IF pressed[1]
           THEN WithChemicalAt(s, pos[1] \div config.SCALE,
                               pos[2] \div config.SCALE, 5, "V")
         ELSE IF pressed[3]
           THEN WithChemicalAt(s, pos[1] \div config.SCALE,
                               pos[2] \div config.SCALE, 8, "U")
         ELSE s
    ELSE s

\* One event of pygame.event.get(): <<"QUIT">>, <<"KEYDOWN", key>> or
\* <<"MOUSEBUTTONDOWN", pos, button>>.
HandleEvent(s, ev) ==
  IF ev[1] = "QUIT" THEN {[s EXCEPT !.running = FALSE]}
  ELSE IF ev[1] = "KEYDOWN" THEN HandleKeydown(s, ev[2])
  ELSE IF ev[1] = "MOUSEBUTTONDOWN" THEN {HandleMouseClick(s, ev[2], ev[3])}
  ELSE {s}

\* A for loop over the events that a quit request breaks out of.
RECURSIVE HandleEventListUntilQuit(_, _)
HandleEventListUntilQuit(S, evs) ==
  IF evs = <<>> THEN S
  ELSE HandleEventListUntilQuit(
         UNION {IF s.err = "none" /\ s.running THEN HandleEvent(s, evs[1])
                ELSE {s} :
                  s \in S},
         Tail(evs))

\* The for loop of _handle_events over the events evs, from each state of
\* S.  An exception ends it.
RECURSIVE HandleEventList(_, _)
HandleEventList(S, evs) ==
  IF evs = <<>> THEN S
  ELSE HandleEventList(
         UNION {IF s.err = "none" THEN HandleEvent(s, evs[1]) ELSE {s} :
                  s \in S},
         Tail(evs))

\* _handle_events: the queued events, then the drag check on the mouse
\* state mouse = <<pos, pressed>>.
HandleEvents(s, evs, mouse) ==
  {IF t.err = "none" /\ (mouse[2][1] \/ mouse[2][3])
     THEN HandleMouseDrag(t, mouse[1], mouse[2])
     ELSE t :
     t \in HandleEventList({s}, evs)}

\* n calls of step() on the pair of fields uv.
RECURSIVE StepN(_, _, _, _, _, _, _)
StepN(uv, du, dv, fe, ki, d, n) ==
  IF n = 0 THEN uv
  ELSE StepN(StepFields(uv[1], uv[2], du, dv, fe, ki, d),
             du, dv, fe, ki, d, n - 1)

\* An iteration that steps whether paused or not.
FrameStepsAlways(s) == config.STEPS_PER_FRAME

\* The number of step() calls of an iteration whose events left state s.
FrameSteps(s) ==
  IF s.err # "none" THEN 0
  ELSE IF ~s.paused THEN config.STEPS_PER_FRAME
  ELSE 0

\* One iteration of the while loop of run: the events, then the steps.
\* (The rendering that follows reads the fields and changes none of this.)
\* The record of the iteration keeps the state it found, the number of
\* step() calls and the fields as the events left them.
Frame(evs, mouse) ==
  /\ running
  /\ CanCall
  /\ \E s \in HandleEvents(Vis, evs, mouse) :
       \E uv \in {StepN(<<s.U, s.V>>, Du, Dv, s.f, s.k, dt, FrameSteps(s))} :
         /\ U' = uv[1]
         /\ V' = uv[2]
         /\ f' = s.f
         /\ k' = s.k
         /\ running' = s.running
         /\ paused' = s.paused
         /\ use_alt_colormap' = s.use_alt_colormap
         /\ err' = s.err
         /\ last' = [op |-> "frame", args |-> <<evs, mouse>>,
                     draws |-> s.draws,
                     result |-> [steps |-> FrameSteps(s), U |-> s.U, V |-> s.V],
                     pre |-> Vis]
  /\ fuel' = fuel - 1
  /\ UNCHANGED isingVars
  /\ UNCHANGED <<width, height, config, Du, Dv, dt>>

\* The batches of events and the mouse states an iteration is tried with.
KeyEvent(key) == <<"KEYDOWN", key>>
LeftClick(pos) == <<"MOUSEBUTTONDOWN", pos, 1>>
RightClick(pos) == <<"MOUSEBUTTONDOWN", pos, 3>>

EventBatches ==
  {<<>>, <<KeyEvent(K_SPACE)>>, <<<<"QUIT">>>>,
   <<KeyEvent(K_q), KeyEvent(K_3)>>, <<KeyEvent(K_UP)>>, <<KeyEvent(K_r)>>,
   <<LeftClick(<<0, 0>>)>>, <<RightClick(<<2, 2>>)>>,
   <<KeyEvent(K_SPACE), KeyEvent(K_r)>>,
   <<KeyEvent(K_SPACE), LeftClick(<<0, 0>>)>>}

MouseStates ==
  {<<<<0, 0>>, <<FALSE, FALSE, FALSE>>>>,
   <<<<1, 1>>, <<TRUE, FALSE, FALSE>>>>,
   <<<<1, DisplayHeight + 1>>, <<FALSE, FALSE, TRUE>>>>}

\* The visualizer on a given engine whose grid is the config's.
InitLoop ==
  \E w \in {MaxDim}, h \in {MaxDim}, st \in SmallStarts :
    /\ width = w
    /\ height = h
    /\ config = [st[1] EXCEPT !.WIDTH = w, !.HEIGHT = h]
    /\ U = IF st[2] = "fresh" THEN Full(h, w, Scale) ELSE RampU(h, w)
    /\ V = IF st[2] = "fresh" THEN Full(h, w, 0) ELSE RampV(h, w)
    /\ Du = st[1].DU
    /\ Dv = st[1].DV
    /\ f = st[1].FEED_RATE
    /\ k = st[1].KILL_RATE
    /\ dt = st[1].DT
    /\ err = "none"
    /\ running = TRUE
    /\ paused = FALSE
    /\ use_alt_colormap = FALSE
    /\ last = [op |-> "given", args |-> <<w, h>>, draws |-> <<>>,
               result |-> <<>>, pre |-> <<>>]
    /\ fuel = MaxFrames
    /\ IsingIdle

NextLoop == \E evs \in EventBatches, mouse \in MouseStates : Frame(evs, mouse)

SpecLoop == InitLoop /\ [][NextLoop]_vars

----------------------------------------------------------------------------
(* ising_model.py.  J and the temperature are counted in tenths.  An       *)
(* energy is kept as the sum of energy(i, j) over the sites, which is the  *)
(* stored energy per site times 2 * size * size (and times 10, for J); a   *)
(* magnetization is kept as |sum of the spins|, the stored one times       *)
(* size * size.                                                            *)

max_data_points == 500
max_steps == 10000

\* np.random.choice([-1, 1], size=(n, n)).
RandomLattices(n) == [1..n -> [1..n -> {-1, 1}]]

\* IsingModel.energy(i, j), for the lattice lat of size n with coupling jc.
Energy(lat, n, jc, i, j) ==
  -jc * lat[i + 1][j + 1]
      * (lat[((i + 1) % n) + 1][j + 1] + lat[((i - 1) % n) + 1][j + 1]
         + lat[i + 1][((j + 1) % n) + 1] + lat[i + 1][((j - 1) % n) + 1])

\* The sum of energy(i, j) over the first m sites in row order.
RECURSIVE EnergySum(_, _, _, _)
EnergySum(lat, n, jc, m) ==
  IF m = 0 THEN 0
  ELSE Energy(lat, n, jc, (m - 1) \div n, (m - 1) % n)
         + EnergySum(lat, n, jc, m - 1)

\* total_energy() / (size * size), in the unit given above.
TotalEnergy(lat, n, jc) == EnergySum(lat, n, jc, n * n)

RECURSIVE SpinSum(_, _, _)
SpinSum(lat, n, m) ==
  IF m = 0 THEN 0
  ELSE lat[((m - 1) \div n) + 1][((m - 1) % n) + 1] + SpinSum(lat, n, m - 1)

\* magnetization(), in the unit given above.
Magnetization(lat, n) ==
  IF SpinSum(lat, n, n * n) < 0 THEN -SpinSum(lat, n, n * n)
  ELSE SpinSum(lat, n, n * n)

\* self.lattice[i, j] *= -1.
Flipped(lat, n, i, j) ==
  [y \in 1..n |-> [x \in 1..n |->
     IF y = i + 1 /\ x = j + 1 THEN -lat[y][x] ELSE lat[y][x]]]

\* A metropolis_step() that flips the site to the right as well.
MetropolisStepPair(lat, n, jc, t) ==
  UNION {LET delta_E == -2 * Energy(lat, n, jc, i, j)
             both == Flipped(Flipped(lat, n, i, j), n, i, (j + 1) % n)
         IN IF delta_E <= 0 \/ t < 0 THEN {<<both, TRUE>>}
            ELSE IF t = 0 THEN {<<lat, FALSE>>}
            ELSE {<<both, TRUE>>, <<lat, FALSE>>} :
           i \in 0..(n - 1), j \in 0..(n - 1)}

\* metropolis_step(): the pairs <<lattice, returned flag>> it can end with.
\* A move that does not raise the energy is made; one that raises it is
\* made or not, by the draw against exp(-delta_E / T) (which is 0 for
\* T = 0 and at least 1 for T < 0).
MetropolisStep(lat, n, jc, t) ==
  UNION {LET delta_E == -2 * Energy(lat, n, jc, i, j)
         IN IF delta_E <= 0 \/ t < 0 THEN {<<Flipped(lat, n, i, j), TRUE>>}
            ELSE IF t = 0 THEN {<<lat, FALSE>>}
            ELSE {<<Flipped(lat, n, i, j), TRUE>>, <<lat, FALSE>>} :
           i \in 0..(n - 1), j \in 0..(n - 1)}

\* The last m iterations of the loop of metropolis_sweep(), from each pair
\* <<lattice, flips>> of S.
RECURSIVE SweepFrom(_, _, _, _, _)
SweepFrom(S, n, jc, t, m) ==
  IF m = 0 THEN S
  ELSE SweepFrom(
         UNION {{<<r[1], IF r[2] THEN p[2] + 1 ELSE p[2]>> :
                   r \in MetropolisStep(p[1], n, jc, t)} : p \in S},
         n, jc, t, m - 1)

\* metropolis_sweep(): the pairs <<lattice, returned flips>>.
MetropolisSweep(lat, n, jc, t) == SweepFrom({<<lat, 0>>}, n, jc, t, n * n)

\* The simulation and the locals of run as one record.
Sim ==
  [lattice |-> lattice, temperature |-> temperature, J |-> J,
   energies |-> energies, magnetizations |-> magnetizations,
   sweep_count |-> sweep_count, running |-> running, paused |-> paused]

\* One event in the loop of run.
IsingHandleEvent(s, ev) ==
  IF ev[1] = "QUIT" THEN {[s EXCEPT !.running = FALSE]}
  ELSE IF ev[1] # "KEYDOWN" THEN {s}
  ELSE IF ev[2] = K_SPACE THEN {[s EXCEPT !.paused = ~@]}
  ELSE IF ev[2] = K_UP THEN {[s EXCEPT !.temperature = @ + 1]}
  ELSE IF ev[2] = K_DOWN THEN {[s EXCEPT !.temperature = Max({1, @ - 1})]}
  ELSE IF ev[2] = K_RIGHT THEN {[s EXCEPT !.J = @ + 1]}
  ELSE IF ev[2] = K_LEFT THEN {[s EXCEPT !.J = Max({1, @ - 1})]}
  ELSE IF ev[2] = K_s THEN {s}
  ELSE IF ev[2] = K_r
    THEN {[s EXCEPT !.lattice = lat,
                    !.energies = <<TotalEnergy(lat, size, s.J)>>,
                    !.magnetizations = <<Magnetization(lat, size)>>,
                    !.sweep_count = 0] : lat \in RandomLattices(size)}
  ELSE {s}

RECURSIVE IsingHandleEvents(_, _)
IsingHandleEvents(S, evs) ==
  IF evs = <<>> THEN S
  ELSE IsingHandleEvents(UNION {IsingHandleEvent(s, evs[1]) : s \in S},
                         Tail(evs))

\* draw_stats keeping the oldest values when the lists are full.
DrawStatsKeepingOldest(s) ==
  LET es == Append(s.energies, TotalEnergy(s.lattice, size, s.J))
      ms == Append(s.magnetizations, Magnetization(s.lattice, size))
  IN IF Len(es) > max_data_points
       THEN [s EXCEPT !.energies = SubSeq(es, 1, max_data_points),
                      !.magnetizations = SubSeq(ms, 1, max_data_points)]
       ELSE [s EXCEPT !.energies = es, !.magnetizations = ms]

\* draw_stats: both lists grow by the current value and are cut to their
\* last max_data_points entries.
DrawStats(s) ==
  LET es == Append(s.energies, TotalEnergy(s.lattice, size, s.J))
      ms == Append(s.magnetizations, Magnetization(s.lattice, size))
  IN IF Len(es) > max_data_points
       THEN [s EXCEPT
               !.energies = SubSeq(es, Len(es) - max_data_points + 1, Len(es)),
               !.magnetizations =
                 SubSeq(ms, Len(ms) - max_data_points + 1, Len(ms))]
       ELSE [s EXCEPT !.energies = es, !.magnetizations = ms]

\* One iteration of the loop of IsingSimulation.run: the events, a sweep
\* unless paused, the statistics.
IsingFrame(evs) ==
  /\ running
  /\ step < max_steps
  /\ CanCall
  /\ \E s \in IsingHandleEvents({Sim}, evs) :
       \E sw \in (IF ~s.paused
                    THEN MetropolisSweep(s.lattice, size, s.J, s.temperature)
                    ELSE {<<s.lattice, 0>>}) :
         \E t \in {DrawStats([s EXCEPT
                     !.lattice = sw[1],
                     !.sweep_count = IF s.paused THEN @ ELSE @ + 1])} :
           /\ lattice' = t.lattice
           /\ temperature' = t.temperature
           /\ J' = t.J
           /\ energies' = t.energies
           /\ magnetizations' = t.magnetizations
           /\ sweep_count' = t.sweep_count
           /\ running' = t.running
           /\ paused' = t.paused
           /\ step' = IF s.paused THEN step ELSE step + 1
           /\ last' = [op |-> "ising_frame", args |-> <<evs>>, draws |-> <<>>,
                       result |-> sw[2], pre |-> Sim]
  /\ fuel' = fuel - 1
  /\ UNCHANGED <<size, err>>
  /\ UNCHANGED rdVars

\* No reaction-diffusion engine has been created.
RDIdle ==
  /\ width = 0
  /\ height = 0
  /\ config = SimulationConfig
  /\ U = <<>>
  /\ V = <<>>
  /\ Du = 0
  /\ Dv = 0
  /\ f = 0
  /\ k = 0
  /\ dt = 0
  /\ use_alt_colormap = FALSE

\* IsingSimulation(size=n, temperature=t) with the lattice drawn as lat.
IsingConstruct(n, t, lat) ==
  /\ size = n
  /\ lattice = lat
  /\ temperature = t
  /\ J = 10
  /\ energies = <<TotalEnergy(lat, n, 10)>>
  /\ magnetizations = <<Magnetization(lat, n)>>
  /\ sweep_count = 0
  /\ step = 0

\* The simulation after m iterations in each of which RIGHT was pressed and
\* the sweep changed nothing, from the lattice of +1: J has grown by 0.1 a
\* time, so every entry of energies is different.
IsingAged(n, t, m) ==
  LET lat == [y \in 1..n |-> [x \in 1..n |-> 1]]
  IN /\ size = n
     /\ lattice = lat
     /\ temperature = t
     /\ J = 10 + m
     /\ energies = [i \in 1..(m + 1) |-> TotalEnergy(lat, n, 10 + i - 1)]
     /\ magnetizations = [i \in 1..(m + 1) |-> Magnetization(lat, n)]
     /\ sweep_count = m
     /\ step = m

IsingSizes == {1}

\* The iterations run before an aged simulation is taken up: two short of
\* filling the lists.
AgedFrames == max_data_points - 3

InitIsing ==
  /\ RDIdle
  /\ err = "none"
  /\ running = TRUE
  /\ paused = FALSE
  /\ fuel = MaxIsingFrames
  /\ \E n \in IsingSizes :
       /\ last = [op |-> "given", args |-> <<n>>, draws |-> <<>>,
                  result |-> <<>>, pre |-> <<>>]
       /\ \/ \E lat \in RandomLattices(n) : IsingConstruct(n, 20, lat)
          \/ IsingAged(n, 20, AgedFrames)

IsingBatches ==
  {<<>>, <<KeyEvent(K_SPACE)>>, <<KeyEvent(K_r)>>, <<KeyEvent(K_RIGHT)>>,
   <<KeyEvent(K_LEFT)>>, <<KeyEvent(K_UP)>>, <<KeyEvent(K_DOWN)>>,
   <<KeyEvent(K_s)>>, <<<<"QUIT">>>>, <<KeyEvent(K_SPACE), KeyEvent(K_r)>>}

NextIsing == \E evs \in IsingBatches : IsingFrame(evs)

SpecIsing == InitIsing /\ [][NextIsing]_vars

----------------------------------------------------------------------------
(* SpecLocal: steps and seedings on given grids wide enough for a cell's   *)
(* 3 x 3 neighbourhood to leave most of the grid out.                      *)

LocalSizes == {4, 10}

\* Seedings: a disc of radius 2 in the middle of the larger grid, a disc
\* of radius 1 near the corner, and a disc of U.
LocalClicks ==
  {<<5, 5, 2, "V">>, <<1, 1, 1, "V">>, <<2, 2, 1, "U">>, <<0, 3, 0, "V">>}

InitLocal ==
  \E w \in LocalSizes, h \in LocalSizes, cfg \in Configs :
    /\ width = w
    /\ height = h
    /\ config = cfg
    /\ U = Full(h, w, Scale)
    /\ V = Full(h, w, 0)
    /\ Du = cfg.DU
    /\ Dv = cfg.DV
    /\ f = cfg.FEED_RATE
    /\ k = cfg.KILL_RATE
    /\ dt = cfg.DT
    /\ err = "none"
    /\ running = TRUE
    /\ paused = FALSE
    /\ use_alt_colormap = FALSE
    /\ last = [op |-> "given", args |-> <<w, h>>, draws |-> <<>>,
               result |-> <<>>, pre |-> <<>>]
    /\ fuel = MaxLocalCalls
    /\ IsingIdle

NextLocal ==
  \/ Step
  \/ \E c \in LocalClicks : AddChemicalAt(c[1], c[2], c[3], c[4])

SpecLocal == InitLocal /\ [][NextLocal]_vars

----------------------------------------------------------------------------
(* SpecArrows: the arrow and preset keys pressed one after another on an   *)
(* engine with the default parameters.                                     *)

\* An engine with the fields u, v and the parameters of cfg, and a
\* visualizer on it, with calls calls to come.
GivenEngine(w, h, cfg, u, v, calls) ==
  /\ width = w
  /\ height = h
  /\ config = cfg
  /\ U = u
  /\ V = v
  /\ Du = cfg.DU
  /\ Dv = cfg.DV
  /\ f = cfg.FEED_RATE
  /\ k = cfg.KILL_RATE
  /\ dt = cfg.DT
  /\ err = "none"
  /\ running = TRUE
  /\ paused = FALSE
  /\ use_alt_colormap = FALSE
  /\ last = [op |-> "given", args |-> <<w, h>>, draws |-> <<>>,
             result |-> <<>>, pre |-> <<>>]
  /\ fuel = calls
  /\ IsingIdle

ArrowKeys == {K_UP, K_DOWN, K_RIGHT, K_LEFT, K_1, K_2, K_3, K_4, K_5}

InitArrows ==
  GivenEngine(MaxDim, MaxDim, SimulationConfig,
              Full(MaxDim, MaxDim, Scale), Full(MaxDim, MaxDim, 0),
              MaxKeyPresses)

NextArrows == \E key \in ArrowKeys : KeyDown(key)

SpecArrows == InitArrows /\ [][NextArrows]_vars

----------------------------------------------------------------------------
(* SpecMouse: _handle_events called with clicks and mouse states on a grid *)
(* wider than the largest radius, so that the extent of a click shows.     *)

\* _handle_events() with the queued events evs and the mouse state mouse,
\* as run calls it.
DoHandleEvents(evs, mouse) ==
  /\ running
  /\ CanCall
  /\ \E s \in HandleEvents(Vis, evs, mouse) :
       /\ U' = s.U
       /\ V' = s.V
       /\ f' = s.f
       /\ k' = s.k
       /\ running' = s.running
       /\ paused' = s.paused
       /\ use_alt_colormap' = s.use_alt_colormap
       /\ err' = s.err
       /\ last' = [op |-> "handle_events", args |-> <<evs, mouse>>,
                   draws |-> s.draws, result |-> <<>>, pre |-> Vis]
  /\ fuel' = fuel - 1
  /\ UNCHANGED isingVars
  /\ UNCHANGED <<width, height, config, Du, Dv, dt>>

\* The height of the strip below the simulation area.
UIStrip == 60

MiddleClick(pos) == <<"MOUSEBUTTONDOWN", pos, 2>>

\* The display is SCALE * MouseDim pixels wide and high.
MouseBatches ==
  LET dh == SCALE * MouseDim
  IN {<<>>,
      <<LeftClick(<<0, 0>>)>>, <<RightClick(<<0, 0>>)>>,
      <<LeftClick(<<1, 1>>)>>,
      <<LeftClick(<<13, 5>>)>>, <<RightClick(<<dh - 1, dh - 1>>)>>,
      <<LeftClick(<<5, dh - 1>>)>>,
      <<LeftClick(<<5, dh>>)>>, <<RightClick(<<5, dh + UIStrip - 1>>)>>,
      <<MiddleClick(<<4, 4>>)>>,
      <<LeftClick(<<0, 0>>), RightClick(<<0, 0>>)>>}

MousePressed ==
  LET dh == SCALE * MouseDim
  IN {<<<<0, 0>>, <<FALSE, FALSE, FALSE>>>>,
      <<<<6, 6>>, <<TRUE, FALSE, FALSE>>>>,
      <<<<6, 6>>, <<FALSE, FALSE, TRUE>>>>,
      <<<<6, dh>>, <<TRUE, FALSE, FALSE>>>>,
      <<<<6, dh + 10>>, <<FALSE, FALSE, TRUE>>>>}

\* Engines of MouseDim x MouseDim cells, fresh or with both fields uniform
\* at a value strictly inside [0, 1], under a visualizer whose config has
\* the grid's size.
InitMouse ==
  \E uv \in {<<Scale, 0>>, <<500, 250>>} :
    GivenEngine(MouseDim, MouseDim,
                [SimulationConfig EXCEPT !.WIDTH = MouseDim,
                                         !.HEIGHT = MouseDim],
                Full(MouseDim, MouseDim, uv[1]),
                Full(MouseDim, MouseDim, uv[2]),
                MaxMouseCalls)

NextMouse ==
  \E evs \in MouseBatches, mouse \in MousePressed : DoHandleEvents(evs, mouse)

SpecMouse == InitMouse /\ [][NextMouse]_vars

----------------------------------------------------------------------------
(* SpecQuit: the loop of run with batches that hold a quit request, first, *)
(* last, alone or not at all.                                              *)

QuitBatches ==
  {<<>>, <<<<"QUIT">>>>, <<KeyEvent(K_q)>>, <<KeyEvent(K_ESCAPE)>>,
   <<KeyEvent(K_q), KeyEvent(K_3)>>,
   <<KeyEvent(K_SPACE)>>, <<KeyEvent(K_m)>>, <<KeyEvent(K_DOWN)>>,
   <<KeyEvent(K_SPACE), KeyEvent(K_ESCAPE)>>,
   <<<<"QUIT">>, LeftClick(<<0, 0>>)>>,
   <<KeyEvent(K_4), <<"QUIT">>>>}

NextQuit ==
  \E evs \in QuitBatches :
    Frame(evs, <<<<0, 0>>, <<FALSE, FALSE, FALSE>>>>)

SpecQuit == InitLoop /\ [][NextQuit]_vars

----------------------------------------------------------------------------
(* SpecMetropolis: metropolis_step() and metropolis_sweep() called on the  *)
(* model of a simulation, and iterations of run that reset the lattice.    *)

\* model.metropolis_step().
CallMetropolisStep ==
  /\ CanCall
  /\ size > 0
  /\ \E r \in MetropolisStep(lattice, size, J, temperature) :
       /\ lattice' = r[1]
       /\ last' = [op |-> "metropolis_step", args |-> <<>>, draws |-> <<>>,
                   result |-> r[2], pre |-> Sim]
  /\ fuel' = fuel - 1
  /\ UNCHANGED <<size, temperature, J, energies, magnetizations,
                 sweep_count, step, err, running, paused>>
  /\ UNCHANGED rdVars

\* The last m iterations of the loop of metropolis_sweep() from each
\* <<lattice, flips, calls>> of S, calls counting the metropolis_step()
\* calls made.
RECURSIVE SweepCalls(_, _, _, _, _)
SweepCalls(S, n, jc, t, m) ==
  IF m = 0 THEN S
  ELSE SweepCalls(
         UNION {{<<r[1], IF r[2] THEN p[2] + 1 ELSE p[2], p[3] + 1>> :
                   r \in MetropolisStep(p[1], n, jc, t)} : p \in S},
         n, jc, t, m - 1)

\* model.metropolis_sweep().
CallMetropolisSweep ==
  /\ CanCall
  /\ size > 0
  /\ \E r \in SweepCalls({<<lattice, 0, 0>>}, size, J, temperature,
                         size * size) :
       /\ lattice' = r[1]
       /\ last' = [op |-> "metropolis_sweep", args |-> <<>>, draws |-> <<>>,
                   result |-> [flips |-> r[2], steps |-> r[3]], pre |-> Sim]
  /\ fuel' = fuel - 1
  /\ UNCHANGED <<size, temperature, J, energies, magnetizations,
                 sweep_count, step, err, running, paused>>
  /\ UNCHANGED rdVars

MetropolisSizes == {1, 2}

\* Temperatures in tenths: negative, zero, low and the default 2.0.
MetropolisTemperatures == {-10, 0, 1, 20}

InitMetropolis ==
  /\ RDIdle
  /\ err = "none"
  /\ running = TRUE
  /\ paused = FALSE
  /\ fuel = MaxMetropolisCalls
  /\ \E n \in MetropolisSizes, t \in MetropolisTemperatures :
       /\ last = [op |-> "given", args |-> <<n>>, draws |-> <<>>,
                  result |-> <<>>, pre |-> <<>>]
       /\ \E lat \in RandomLattices(n) : IsingConstruct(n, t, lat)

\* An iteration of run in which R is pressed: after SPACE has paused the
\* loop, so that the iteration ends on the lattice R drew, and, on the
\* smallest lattice, with the sweep that follows R when not paused.
NextMetropolis ==
  \/ CallMetropolisStep
  \/ CallMetropolisSweep
  \/ ~paused /\ IsingFrame(<<KeyEvent(K_SPACE), KeyEvent(K_r)>>)
  \/ ~paused /\ size = 1 /\ IsingFrame(<<KeyEvent(K_r)>>)

SpecMetropolis == InitMetropolis /\ [][NextMetropolis]_vars

----------------------------------------------------------------------------
(* Types.                                                                  *)

IsField(arr, h, w, vals) ==
  /\ Rows(arr) = h
  /\ \A y \in 1..h : Len(arr[y]) = w /\ \A x \in 1..w : arr[y][x] \in vals

----------------------------------------------------------------------------
(* Properties.  Cells are named as in the source, from 0.                  *)

At(arr, y0, x0) == arr[y0 + 1][x0 + 1]

GridCells == (0 .. height - 1) \X (0 .. width - 1)

\* The 3 x 3 stencil at cell (y0, x0) of arr with the neighbours taken
\* modulo the shape of arr: -1.0 at the centre, 0.2 on the four edge
\* neighbours, 0.05 on the four diagonal ones.
Stencil(arr, y0, x0) ==
  LET hh == Rows(arr)
      ww == Cols(arr)
      Nb(dy, dx) == At(arr, (y0 + dy + hh) % hh, (x0 + dx + ww) % ww)
  IN Mul(-1000, Nb(0, 0))
     + Mul(200, Nb(-1, 0)) + Mul(200, Nb(1, 0))
     + Mul(200, Nb(0, -1)) + Mul(200, Nb(0, 1))
     + Mul(50, Nb(-1, -1)) + Mul(50, Nb(-1, 1))
     + Mul(50, Nb(1, -1)) + Mul(50, Nb(1, 1))

\* Whether cell (y0, x0) lies in the disc of a call's arguments.
InDisc(args, y0, x0) ==
  (x0 - args[1]) * (x0 - args[1]) + (y0 - args[2]) * (y0 - args[2])
    <= args[3] * args[3]

\* C1.  At every operation boundary every cell of U and of V lies in
\* [0, 1], whatever the parameters are.
C1_FieldsInUnitRange ==
  /\ IsField(U, height, width, 0 .. Scale)
  /\ IsField(V, height, width, 0 .. Scale)

\* A step whose update left [0, 1] on both sides before the clips.
C1_Witness ==
  /\ last.op = "step"
  /\ LET raw == StepUpdate(last.pre.U, last.pre.V, Du, Dv, f, k, dt)
     IN /\ \E c \in GridCells : At(raw[2], c[1], c[2]) > Scale
        /\ \E c \in GridCells : At(raw[1], c[1], c[2]) < 0

\* C2.  One step replaces every cell by the clamped Euler update in which
\* both Laplacians and the reaction term U*V*V are taken from the fields
\* as they were before the step.
C2_StepReadsOnlyTheSnapshot ==
  last.op = "step" =>
    \A c \in GridCells :
      LET pu == At(last.pre.U, c[1], c[2])
          pv == At(last.pre.V, c[1], c[2])
          reaction == Mul(Mul(pu, pv), pv)
      IN /\ At(U, c[1], c[2]) =
              Clip(pu + Mul(dt, Mul(Du, Stencil(last.pre.U, c[1], c[2]))
                                - reaction + Mul(f, Scale - pu)), 0, Scale)
         /\ At(V, c[1], c[2]) =
              Clip(pv + Mul(dt, Mul(Dv, Stencil(last.pre.V, c[1], c[2]))
                                + reaction - Mul(f + k, pv)), 0, Scale)

\* A step after which some cell's V is strictly inside (0, 1) and would
\* have been different had the reaction term read the new U.
C2_Witness ==
  /\ last.op = "step"
  /\ \E c \in GridCells :
       LET pu == At(last.pre.U, c[1], c[2])
           pv == At(last.pre.V, c[1], c[2])
           raw == pv + Mul(dt, Mul(Dv, Stencil(last.pre.V, c[1], c[2]))
                              + Mul(Mul(At(U, c[1], c[2]), pv), pv)
                              - Mul(f + k, pv))
       IN /\ 0 < At(V, c[1], c[2])
          /\ At(V, c[1], c[2]) < Scale
          /\ At(V, c[1], c[2]) # Clip(raw, 0, Scale)

\* C3.  _compute_laplacian returns a field of the shape of its argument
\* holding the toroidal 3 x 3 stencil of every cell, and modifies nothing.
C3_LaplacianIsToroidalStencil ==
  last.op = "_compute_laplacian" =>
    LET arr == IF last.args[1] = "U" THEN U ELSE V
    IN /\ U = last.pre.U
       /\ V = last.pre.V
       /\ Rows(last.result) = height
       /\ \A y \in 1..height : Len(last.result[y]) = width
       /\ \A c \in GridCells :
            At(last.result, c[1], c[2]) = Stencil(arr, c[1], c[2])

\* The Laplacian of a field two cells wide and one high whose two cells
\* differ: every neighbour is reached by wrapping.
C3_Witness ==
  /\ last.op = "_compute_laplacian"
  /\ last.args[1] = "V"
  /\ width = 2
  /\ height = 1
  /\ V[1][1] # V[1][2]
  /\ last.result[1][1] # 0

\* C4.  set_parameters never fails and stores min(max(v, 0.001), 0.1) for
\* every supplied v.
C4_SetParametersClamps ==
  last.op = "set_parameters" =>
    LET Clamped(v) == IF v < 1 THEN 1 ELSE IF v > 100 THEN 100 ELSE v
    IN /\ err = "none"
       /\ last.args[1] # None => f = Clamped(last.args[1][1])
       /\ last.args[2] # None => k = Clamped(last.args[2][1])

\* set_parameters(f=5.0, k=-1.0) has stored f = 0.1 and k = 0.001.
C4_Witness ==
  /\ last.op = "set_parameters"
  /\ last.args = <<Some(5000), Some(-1000)>>
  /\ f = 100
  /\ k = 1

\* C5.  set_parameters leaves the parameter of an omitted argument, the
\* fields, Du, Dv and dt as they were.
C5_SetParametersFrame ==
  last.op = "set_parameters" =>
    /\ last.args[1] = None => f = last.pre.f
    /\ last.args[2] = None => k = last.pre.k
    /\ U = last.pre.U
    /\ V = last.pre.V
    /\ Du = last.pre.Du
    /\ Dv = last.pre.Dv
    /\ dt = last.pre.dt

\* set_parameters(k=-1.0) on an engine whose feed rate is not the default:
\* k has changed and f has not.
C5_Witness ==
  /\ last.op = "set_parameters"
  /\ last.args = <<None, Some(-1000)>>
  /\ last.pre.f # FEED_RATE
  /\ f = last.pre.f
  /\ k # last.pre.k

\* The preset table as the specification gives it.
PresetPair(n) ==
  CASE n = 1 -> <<55, 62>>
    [] n = 2 -> <<39, 58>>
    [] n = 3 -> <<26, 52>>
    [] n = 4 -> <<78, 61>>
    [] n = 5 -> <<14, 47>>

\* C6.  A digit key whose number is in the preset table sets (f, k) to the
\* table's pair whatever they were; one whose number is not in the table
\* leaves them; neither touches the fields.
C6_PresetSetsExactlyItsPair ==
  (last.op = "keydown" /\ last.args[1] \in {K_1, K_2, K_3, K_4, K_5, K_9}) =>
    LET n == last.args[1] - K_0
    IN /\ n \in DOMAIN config.PRESETS =>
            f = PresetPair(n)[1] /\ k = PresetPair(n)[2]
       /\ n \notin DOMAIN config.PRESETS => f = last.pre.f /\ k = last.pre.k
       /\ U = last.pre.U
       /\ V = last.pre.V

\* Preset 3 applied when neither rate had its value: (0.026, 0.052).
C6_Witness ==
  /\ last.op = "keydown"
  /\ last.args[1] = K_3
  /\ last.pre.f # 26
  /\ last.pre.k # 52
  /\ f = 26
  /\ k = 52

\* C7.  _add_circle sets, in the named field, exactly the grid cells within
\* radius of the centre (no wrap of the disc) and leaves every other cell
\* of that field and the whole other field unchanged.
C7_AddCircleWritesExactlyTheDisc ==
  (last.op = "add_chemical_at" /\ last.args[4] \in {"U", "V"}) =>
    LET named == IF last.args[4] = "V" THEN V ELSE U
        namedPre == IF last.args[4] = "V" THEN last.pre.V ELSE last.pre.U
        other == IF last.args[4] = "V" THEN U ELSE V
        otherPre == IF last.args[4] = "V" THEN last.pre.U ELSE last.pre.V
    IN /\ other = otherPre
       /\ \A c \in GridCells :
            At(named, c[1], c[2]) =
              IF InDisc(last.args, c[1], c[2]) THEN Scale
              ELSE At(namedPre, c[1], c[2])

\* A disc of radius 1 centred one cell left of the corner, on a grid three
\* cells wide: the corner cell is written, the cell the centre would wrap
\* to is not.
C7_Witness ==
  /\ last.op = "add_chemical_at"
  /\ last.args = <<-1, 0, 1, "V">>
  /\ width = 3
  /\ last.pre.V[1][1] # Scale
  /\ V[1][1] = Scale
  /\ V[1][3] # Scale

\* C8.  A centre or radius outside the grid is no error: the shapes stay,
\* no cell outside the disc changes, and a disc holding no grid cell leaves
\* both fields as they were.
C8_OutOfRangeDiscIsClipped ==
  last.op = "add_chemical_at" =>
    /\ err = "none"
    /\ Rows(U) = height /\ Rows(V) = height
    /\ \A y \in 1..height : Len(U[y]) = width /\ Len(V[y]) = width
    /\ \A c \in GridCells :
         ~InDisc(last.args, c[1], c[2]) =>
           /\ At(U, c[1], c[2]) = At(last.pre.U, c[1], c[2])
           /\ At(V, c[1], c[2]) = At(last.pre.V, c[1], c[2])
    /\ (\A c \in GridCells : ~InDisc(last.args, c[1], c[2])) =>
         U = last.pre.U /\ V = last.pre.V

\* A disc of radius 2 centred beyond the far corner, on a V that a write
\* would have changed.
C8_Witness ==
  /\ last.op = "add_chemical_at"
  /\ last.args = <<width + 2, height + 2, 2, "V">>
  /\ err = "none"
  /\ \E c \in GridCells : At(last.pre.V, c[1], c[2]) # Scale
  /\ V = last.pre.V

\* C9.  A field selector that is neither 'U' nor 'V' fails with an
\* InvalidArgument condition and modifies neither field.
C9_UnknownSelectorRejected ==
  (last.op = "add_chemical_at" /\ last.args[4] \notin {"U", "V"}) =>
    /\ err = "InvalidArgument"
    /\ U = last.pre.U
    /\ V = last.pre.V

\* C10.  Constructing with a non-positive width or height fails (numpy's
\* ValueError is the configuration error) and leaves no engine; after a
\* construction that succeeded no call fails.
C10_BadSizeFailsAtConstructionOnly ==
  /\ (last.op = "__init__" /\ (width <= 0 \/ height <= 0)) =>
       err = "ValueError" /\ U = <<>> /\ V = <<>> /\ ~running
  /\ last.op # "__init__" => err = "none"

\* A construction with width 0, which np.ones accepts, has failed.
C10_Witness ==
  /\ last.op = "__init__"
  /\ width = 0
  /\ height = MinGrid
  /\ err = "ValueError"

\* Whether cell (y0, x0) lies in one of the discs of a list of seed draws
\* <<cx, cy, radius>>.
InSeeds(draws, y0, x0) ==
  \E i \in 1..Len(draws) : InDisc(draws[i], y0, x0)

\* C11.  Constructing with any positive width and height, a 10 x 10 grid
\* included, succeeds: U is 1.0 everywhere, V is 1.0 on the seeded discs
\* and 0.0 elsewhere, and the parameters are the configured ones.
C11_EveryPositiveSizeConstructs ==
  (last.op = "__init__" /\ width > 0 /\ height > 0) =>
    /\ err = "none"
    /\ IsField(U, height, width, {Scale})
    /\ IsField(V, height, width, {0, Scale})
    /\ \A c \in GridCells :
         At(V, c[1], c[2]) = Scale <=> InSeeds(last.draws, c[1], c[2])
    /\ <<f, k, Du, Dv, dt>> =
         <<config.FEED_RATE, config.KILL_RATE, config.DU, config.DV, config.DT>>

\* Whether the last call was reset(), made directly or by the R key.
WasReset ==
  last.op = "reset" \/ (last.op = "keydown" /\ last.args = <<K_r>>)

\* Whether the last call was clear_with_seeds(), made directly or by C.
WasClear ==
  last.op = "clear_with_seeds" \/ (last.op = "keydown" /\ last.args = <<K_c>>)

WasSeeding == last.op = "__init__" \/ WasReset \/ WasClear

\* C13.  Every seed placed by construction, reset() or clear_with_seeds()
\* has a radius from 5 to 15 and a centre at least the largest seed radius
\* away from every edge, so its disc lies inside the grid.
C13_SeedsLieInsideTheGrid ==
  (WasSeeding /\ err = "none") =>
    \A i \in 1..Len(last.draws) :
      LET cx == last.draws[i][1]
          cy == last.draws[i][2]
          radius == last.draws[i][3]
      IN /\ radius >= 5 /\ radius <= 15
         /\ cx >= 15 /\ cx <= (width - 1) - 15
         /\ cy >= 15 /\ cy <= (height - 1) - 15
         /\ \A dy \in -radius..radius, dx \in -radius..radius :
              dx * dx + dy * dy <= radius * radius =>
                /\ cx + dx \in 0..(width - 1)
                /\ cy + dy \in 0..(height - 1)

\* A reset that has placed a seed of the largest radius drawn, 14.
C13_Witness ==
  /\ WasReset
  /\ err = "none"
  /\ \E i \in 1..Len(last.draws) : last.draws[i][3] = SeedRadiusHigh - 1
  /\ \E c \in GridCells : At(V, c[1], c[2]) = Scale

C16_UniformFieldIsFixed ==
  (/\ last.op = "step"
   /\ IsField(last.pre.U, height, width, {Scale})
   /\ IsField(last.pre.V, height, width, {0})
   /\ f \in 1..100
   /\ k \in 1..100) =>
    /\ IsField(U, height, width, {Scale})
    /\ IsField(V, height, width, {0})

\* The last of the steps made on the uniform field after the rates were
\* set to the ends of their range.
C16_Witness ==
  /\ last.op = "step"
  /\ fuel = 0
  /\ f = 100
  /\ k = 1
  /\ width > 1
  /\ IsField(last.pre.U, height, width, {Scale})
  /\ IsField(last.pre.V, height, width, {0})
  /\ IsField(U, height, width, {Scale})

\* A field rolled by one row (row y moves to row y + 1) and by one column,
\* with wraparound.
ShiftRows(arr) ==
  Array(Rows(arr), Cols(arr),
        [y \in 1..Rows(arr) |-> arr[((y - 2) % Rows(arr)) + 1]])

ShiftCols(arr) ==
  Array(Rows(arr), Cols(arr),
        [y \in 1..Rows(arr) |->
           [x \in 1..Cols(arr) |-> arr[y][((x - 2) % Cols(arr)) + 1]]])

\* C17.  step() commutes with toroidal shifts: stepping the fields shifted
\* by one row, or by one column, gives the stepped fields shifted the same
\* way.
C17_StepCommutesWithShifts ==
  last.op = "step" =>
    /\ StepFields(ShiftRows(last.pre.U), ShiftRows(last.pre.V),
                  Du, Dv, f, k, dt) = <<ShiftRows(U), ShiftRows(V)>>
    /\ StepFields(ShiftCols(last.pre.U), ShiftCols(last.pre.V),
                  Du, Dv, f, k, dt) = <<ShiftCols(U), ShiftCols(V)>>

\* A step of a 3 x 3 field with a disc seeded at its corner: both shifts
\* move the field, and the step has changed it.
C17_Witness ==
  /\ last.op = "step"
  /\ width = 3
  /\ height = 3
  /\ At(last.pre.V, 0, 0) = Scale
  /\ At(last.pre.V, 1, 1) # Scale
  /\ ShiftRows(last.pre.V) # last.pre.V
  /\ ShiftCols(last.pre.V) # last.pre.V
  /\ V # last.pre.V
  /\ \E c \in GridCells : At(V, c[1], c[2]) \notin {0, Scale}

RECURSIVE Stepped(_, _)
Stepped(uv, n) ==
  IF n = 0 THEN uv
  ELSE Stepped(StepFields(uv[1], uv[2], Du, Dv, f, k, dt), n - 1)

\* Whether a batch of events holds a press of the given key.
Pressed(evs, key) == \E i \in 1..Len(evs) : evs[i] = <<"KEYDOWN", key>>

\* C19.  A loop iteration that ends its events paused calls step() not at
\* all, so the fields are as the events left them; one that ends them
\* running calls it exactly 8 times, after the events.  SPACE toggles
\* between the two, and a click, a parameter key, a preset and a reset act
\* the same whether paused or not.
C19_PauseGatesTheSteps ==
  last.op = "frame" =>
    LET r == last.result
        p == last.pre
        evs == last.args[1]
        idle == ~last.args[2][2][1] /\ ~last.args[2][2][3]
    IN /\ (err = "none" /\ paused) =>
            r.steps = 0 /\ <<U, V>> = <<r.U, r.V>>
       /\ (err = "none" /\ ~paused) =>
            r.steps = 8 /\ <<U, V>> = Stepped(<<r.U, r.V>>, 8)
       /\ (evs = <<>> /\ idle /\ paused) => <<U, V>> = <<p.U, p.V>>
       /\ paused = (IF Pressed(evs, K_SPACE) THEN ~p.paused ELSE p.paused)
       /\ (evs # <<>> /\ evs[Len(evs)] = LeftClick(<<0, 0>>) /\ idle) =>
            <<r.U, r.V>> =
              AddCircle(width, height, p.U, p.V, 0, 0, 8, "V", Scale)
       /\ evs = <<KeyEvent(K_UP)>> =>
            f = (IF p.f + 2 > 100 THEN 100 ELSE p.f + 2) /\ k = p.k
       /\ Pressed(evs, K_3) => f = 26 /\ k = 52
       /\ Pressed(evs, K_r) =>
            /\ IsField(r.U, height, width, {Scale})
            /\ \A c \in GridCells :
                 At(r.V, c[1], c[2]) =
                   IF InSeeds(last.draws, c[1], c[2]) THEN Scale ELSE 0

\* An iteration that found the loop paused and was resumed by SPACE: its
\* 8 steps changed the fields, and fewer steps would have left others.
C19_Witness ==
  /\ last.op = "frame"
  /\ last.pre.paused
  /\ ~paused
  /\ last.args[1] = <<KeyEvent(K_SPACE)>>
  /\ last.result.steps = 8
  /\ <<U, V>> # <<last.result.U, last.result.V>>
  /\ <<U, V>> # Stepped(<<last.result.U, last.result.V>>, 7)

\* The last 500 entries of a list, or all of it if it has no more.
Recent(seq) ==
  IF Len(seq) <= 500 THEN seq
  ELSE [i \in 1..500 |-> seq[Len(seq) - 500 + i]]

Surrounded(uu, vv, y0, x0, u, v) ==
  \A dy \in {-1, 0, 1}, dx \in {-1, 0, 1} :
    /\ At(uu, (y0 + dy + height) % height, (x0 + dx + width) % width) = u
    /\ At(vv, (y0 + dy + height) % height, (x0 + dx + width) % width) = v

\* C21.  step() is local: a cell whose toroidal 3 x 3 neighbourhood is
\* uniformly U = 1, V = 0 before a step has U = 1, V = 0 after it, whatever
\* the rest of the grid holds and whatever the parameters; a cell whose
\* neighbourhood is uniformly U = 1, V = 1 ends the step with V = 1 and
\* U = 0 under the default parameters.
C21_StepIsLocal ==
  last.op = "step" =>
    \A c \in GridCells :
      /\ Surrounded(last.pre.U, last.pre.V, c[1], c[2], Scale, 0) =>
           At(U, c[1], c[2]) = Scale /\ At(V, c[1], c[2]) = 0
      /\ (/\ Surrounded(last.pre.U, last.pre.V, c[1], c[2], Scale, Scale)
          /\ <<Du, Dv, f, k, dt>> = <<160, 80, 55, 62, 1000>>) =>
           At(U, c[1], c[2]) = 0 /\ At(V, c[1], c[2]) = Scale

\* The step of a 10 x 10 grid seeded with a V disc of radius 2 at (5, 5),
\* under the default parameters: cell (0, 0) is as it was, cell (5, 5) has
\* lost its U, and V has spread to cell (5, 8) beside the disc.
C21_Witness ==
  /\ last.op = "step"
  /\ width = 10
  /\ height = 10
  /\ config = SimulationConfig
  /\ \A c \in GridCells :
       /\ At(last.pre.U, c[1], c[2]) = Scale
       /\ At(last.pre.V, c[1], c[2]) =
            IF InDisc(<<5, 5, 2>>, c[1], c[2]) THEN Scale ELSE 0
  /\ At(U, 0, 0) = Scale
  /\ At(V, 0, 0) = 0
  /\ At(U, 5, 5) = 0
  /\ At(V, 5, 5) = Scale
  /\ At(V, 5, 8) > 0

\* A rate moved by d and held at the bounds 0.001 and 0.1.
Saturated(v, d) ==
  IF v + d > 100 THEN 100 ELSE IF v + d < 1 THEN 1 ELSE v + d

\* C22.  From the default rates, whatever arrow and preset keys are
\* pressed, f and k stay within [0.001, 0.1]: UP and DOWN move f by 0.002,
\* RIGHT and LEFT move k by 0.002, and a press that would cross a bound
\* leaves the rate at that bound.
C22_ArrowKeysSaturate ==
  /\ f \in 1..100
  /\ k \in 1..100
  /\ err = "none"
  /\ last.op = "keydown" =>
       LET key == last.args[1]
       IN /\ key = K_UP => f = Saturated(last.pre.f, 2) /\ k = last.pre.k
          /\ key = K_DOWN => f = Saturated(last.pre.f, -2) /\ k = last.pre.k
          /\ key = K_RIGHT => k = Saturated(last.pre.k, 2) /\ f = last.pre.f
          /\ key = K_LEFT => k = Saturated(last.pre.k, -2) /\ f = last.pre.f
          /\ key \in {K_1, K_2, K_3, K_4, K_5} =>
               <<f, k>> = PresetPair(key - K_0)

\* DOWN pressed with f = 0.002, one step short of crossing the lower bound,
\* reached by presses alone: f is left at 0.001.
C22_Witness ==
  /\ last.op = "keydown"
  /\ last.args = <<K_DOWN>>
  /\ last.pre.f = 2
  /\ f = 1

\* arr is old with the disc of the given radius around cell (cx, cy)
\* set to 1.0 and every other cell as it was.
DiscWritten(arr, old, cx, cy, radius) ==
  \A c \in GridCells :
    At(arr, c[1], c[2]) =
      IF InDisc(<<cx, cy, radius>>, c[1], c[2]) THEN Scale
      ELSE At(old, c[1], c[2])

\* C23.  A button-down at pixel (x, y) with y below the display height
\* writes at cell (x // SCALE, y // SCALE): the left button the disc of
\* radius 8 of V, the right button the disc of radius 12 of U, and the
\* click writes nothing else; clicks and drags in the strip below the
\* simulation area change neither field.
C23_ClicksSeedTheirDisc ==
  last.op = "handle_events" =>
    LET evs == last.args[1]
        mouse == last.args[2]
        held == mouse[2][1] \/ mouse[2][3]
        InStrip(pos) == pos[2] >= config.HEIGHT * config.SCALE
        IsClick(ev) == ev[1] = "MOUSEBUTTONDOWN"
    IN /\ (/\ Len(evs) = 1
           /\ IsClick(evs[1])
           /\ ~InStrip(evs[1][2])
           /\ ~held) =>
            LET cx == evs[1][2][1] \div config.SCALE
                cy == evs[1][2][2] \div config.SCALE
            IN /\ evs[1][3] = 1 =>
                    /\ U = last.pre.U
                    /\ DiscWritten(V, last.pre.V, cx, cy, 8)
               /\ evs[1][3] = 3 =>
                    /\ V = last.pre.V
                    /\ DiscWritten(U, last.pre.U, cx, cy, 12)
       /\ (/\ \A i \in 1..Len(evs) : IsClick(evs[i]) /\ InStrip(evs[i][2])
           /\ held => InStrip(mouse[1])) =>
            /\ U = last.pre.U
            /\ V = last.pre.V

\* A right click at the corner pixel on fields below 1.0: the cell twelve
\* to the right is written and the thirteenth is not.
C23_Witness ==
  /\ last.op = "handle_events"
  /\ last.args[1] = <<RightClick(<<0, 0>>)>>
  /\ ~last.args[2][2][1]
  /\ ~last.args[2][2][3]
  /\ At(last.pre.U, 0, 12) < Scale
  /\ At(U, 0, 12) = Scale
  /\ At(U, 0, 13) < Scale

\* Whether a batch of events holds a quit request: Q, ESC or the
\* window-close event.
QuitRequested(evs) ==
  \E i \in 1..Len(evs) :
    evs[i] \in {<<"QUIT">>, KeyEvent(K_q), KeyEvent(K_ESCAPE)}

\* C24.  An iteration of the main loop that handles a quit request is
\* completed (the events queued after the request are applied and, unless
\* paused, the 8 steps are made) and is the last one; an iteration without
\* a quit request leaves the loop running.
C24_QuitEndsTheLoopAfterTheIteration ==
  last.op = "frame" =>
    LET r == last.result
        p == last.pre
        evs == last.args[1]
    IN /\ QuitRequested(evs) =>
            /\ ~running
            /\ ~ENABLED NextQuit
            /\ err = "none"
            /\ r.steps = (IF paused THEN 0 ELSE 8)
            /\ <<U, V>> = Stepped(<<r.U, r.V>>, r.steps)
            /\ evs = <<KeyEvent(K_q), KeyEvent(K_3)>> =>
                 <<f, k>> = PresetPair(3)
            /\ evs = <<<<"QUIT">>, LeftClick(<<0, 0>>)>> =>
                 At(r.V, 0, 0) = Scale
       /\ ~QuitRequested(evs) => running

\* Q followed by the preset key 3 in one batch, not paused: the preset is
\* loaded, the 8 steps change the fields, and the loop is over.
C24_Witness ==
  /\ last.op = "frame"
  /\ last.args[1] = <<KeyEvent(K_q), KeyEvent(K_3)>>
  /\ ~running
  /\ ~paused
  /\ last.result.steps = 8
  /\ <<f, k>> = PresetPair(3)
  /\ <<f, k>> # <<last.pre.f, last.pre.k>>
  /\ <<U, V>> # <<last.result.U, last.result.V>>

\* The sites at which the lattices a and b of size n differ.
Differing(a, b, n) ==
  {c \in (1..n) \X (1..n) : a[c[1]][c[2]] # b[c[1]][c[2]]}

\* C25.  Every site of the Ising lattice holds -1 or +1 in every state:
\* after construction, after metropolis_step() and metropolis_sweep() calls
\* and after an R reset.  A metropolis_step() changes at most one site, by
\* negating it, and exactly then returns True; a metropolis_sweep() makes
\* exactly size * size steps and returns a flip count in 0 .. size * size.
C25_SpinsStayPlusOrMinusOne ==
  /\ DOMAIN lattice = 1..size
  /\ \A i \in 1..size :
       /\ DOMAIN lattice[i] = 1..size
       /\ \A j \in 1..size : lattice[i][j] \in {-1, 1}
  /\ last.op = "metropolis_step" =>
       LET d == Differing(lattice, last.pre.lattice, size)
       IN /\ Cardinality(d) <= 1
          /\ \A c \in d : lattice[c[1]][c[2]] = -last.pre.lattice[c[1]][c[2]]
          /\ last.result = (Cardinality(d) = 1)
  /\ last.op = "metropolis_sweep" =>
       LET d == Differing(lattice, last.pre.lattice, size)
       IN /\ last.result.steps = size * size
          /\ last.result.flips \in 0..(size * size)
          /\ Cardinality(d) % 2 = last.result.flips % 2
          /\ Cardinality(d) <= last.result.flips

\* A sweep of a 2 x 2 lattice that flipped at all four of its steps and
\* left two sites changed, on a lattice that came from an R reset or from
\* earlier calls.
C25_Witness ==
  /\ last.op = "metropolis_sweep"
  /\ size = 2
  /\ last.result.flips = 4
  /\ Cardinality(Differing(lattice, last.pre.lattice, size)) = 2
  /\ fuel < MaxMetropolisCalls - 1

====
